---- MODULE Spec2Model ----
(***************************************************************************)
(* Model of the descriptive-statistics engine of programa-estadistica      *)
(* (src/script.js, src/test_calculations.js): parseInput, calcMean,        *)
(* calcMedian, calcMode, calcRange, calcVariance and getFrequencyTable.    *)
(*                                                                         *)
(* JavaScript Numbers are IEEE-754 binary64 values.  They are modelled     *)
(* exactly: a Number is a sign, a 53-bit significand and an exponent, and  *)
(* every arithmetic operation rounds to nearest, ties to even.  The        *)
(* significands do not fit the integers of the model checker, so they are  *)
(* kept as little-endian sequences of 15-bit limbs.                        *)
(***************************************************************************)
EXTENDS Integers, Sequences, FiniteSets, TLC

----------------------------------------------------------------------------
(* Natural numbers of arbitrary size: little-endian limbs, no high zeros.   *)

LimbBits == 15
LimbBase == 32768
MantBits == 53

RECURSIVE Pow2(_)
Pow2(i) == IF i = 0 THEN 1 ELSE 2 * Pow2(i - 1)

RECURSIVE Pow10(_)
Pow10(i) == IF i = 0 THEN 1 ELSE 10 * Pow10(i - 1)

Abs(i) == IF i < 0 THEN 0 - i ELSE i

Limb(a, i) == IF i <= Len(a) THEN a[i] ELSE 0

Rest(a) == IF a = <<>> THEN <<>> ELSE Tail(a)

\* The operations below call one another many times over.  They are the
\* cases of one recursive operator, Num, and are used through the
\* operators of their names.
RECURSIVE Num(_, _)

BTrim(a) == Num("BTrim", <<a>>)

BFromNat(k) == Num("BFromNat", <<k>>)

BToNat(a) == Num("BToNat", <<a>>)

BAddC(a, b, c) == Num("BAddC", <<a, b, c>>)

BAdd(a, b) == Num("BAdd", <<a, b>>)

BSubC(a, b, c) == Num("BSubC", <<a, b, c>>)

\* a - b for a >= b
BSub(a, b) == Num("BSub", <<a, b>>)

BCmpAt(a, b, i) == Num("BCmpAt", <<a, b, i>>)

\* -1, 0, 1 as a < b, a = b, a > b
BCmp(a, b) == Num("BCmp", <<a, b>>)

BMulSmallC(a, k, c) == Num("BMulSmallC", <<a, k, c>>)

\* a * k for 0 <= k < LimbBase
BMulSmall(a, k) == Num("BMulSmall", <<a, k>>)

BMul(a, b) == Num("BMul", <<a, b>>)

BDivSmallR(a, k) == Num("BDivSmallR", <<a, k>>)

\* quotient and remainder of a by k, 0 < k < LimbBase
BDivSmall(a, k) == Num("BDivSmall", <<a, k>>)

BShl(a, s) == Num("BShl", <<a, s>>)

BShr(a, s) == Num("BShr", <<a, s>>)

BBitLen(a) == Num("BBitLen", <<a>>)

\* bit i (bit 0 is the least significant) of a
BBitAt(a, i) == Num("BBitAt", <<a, i>>)

\* some bit below bit s of a is set
BLowBits(a, s) == Num("BLowBits", <<a, s>>)

(* binary64 arithmetic, round to nearest, ties to even.  A Number is       *)
(* sg * m * 2^e with 2^52 <= m < 2^53, or zero.  The values of this        *)
(* program stay far from the subnormal and overflow ranges, and no         *)
(* operation of it produces a negative zero.                               *)
FRound(sg, m, e, sticky) == Num("FRound", <<sg, m, e, sticky>>)

FFromInt(i) == Num("FFromInt", <<i>>)

FAdd(x, y) == Num("FAdd", <<x, y>>)

FSub(x, y) == Num("FSub", <<x, y>>)

FMul(x, y) == Num("FMul", <<x, y>>)

\* x / k for an integer k with 0 < |k| < LimbBase
FDivInt(x, k) == Num("FDivInt", <<x, k>>)

\* Number.prototype.toFixed(d) of x >= 0, as the integer n of the decimal
\* string: n / 10^d is nearest to x, the larger n on a tie
ToFixedDigits(x, d) == Num("ToFixedDigits", <<x, d>>)

\* parseFloat(x.toFixed(d)) for x >= 0
RoundTo(x, d) == Num("RoundTo", <<x, d>>)

RECURSIVE NatBitLen(_)
NatBitLen(k) == IF k = 0 THEN 0 ELSE 1 + NatBitLen(k \div 2)

BIsOdd(a) == Limb(a, 1) % 2 = 1

FZero == [sg |-> 1, m |-> <<>>, e |-> 0]

FNeg(x) == IF x.m = <<>> THEN x ELSE [x EXCEPT !.sg = 0 - x.sg]

\* the arguments are evaluated on entry (Len(arg) >= 0 is always true), so
\* that the evaluation of nested calls is no deeper than the nesting
Num(op, arg) ==
    CASE Len(arg) >= 0 /\ op = "BTrim" ->
        LET
            a == arg[1]
        IN
            IF a = <<>> THEN a
            ELSE IF a[Len(a)] = 0 THEN BTrim(SubSeq(a, 1, Len(a) - 1)) ELSE a
      [] op = "BFromNat" ->
        LET
            k == arg[1]
        IN
            IF k = 0 THEN <<>> ELSE <<k % LimbBase>> \o BFromNat(k \div LimbBase)
      [] op = "BToNat" ->
        LET
            a == arg[1]
        IN
         IF a = <<>> THEN 0 ELSE a[1] + LimbBase * BToNat(Tail(a))
      [] op = "BAddC" ->
        LET
            a == arg[1]
            b == arg[2]
            c == arg[3]
        IN
            IF a = <<>> /\ b = <<>> THEN (IF c = 0 THEN <<>> ELSE <<c>>)
            ELSE LET s == Limb(a, 1) + Limb(b, 1) + c
                 IN  <<s % LimbBase>> \o BAddC(Rest(a), Rest(b), s \div LimbBase)
      [] op = "BAdd" ->
        LET
            a == arg[1]
            b == arg[2]
        IN
         BAddC(a, b, 0)
      [] op = "BSubC" ->
        LET
            a == arg[1]
            b == arg[2]
            c == arg[3]
        IN
            IF a = <<>> THEN <<>>
            ELSE LET d == (a[1] + LimbBase) - Limb(b, 1) - c
                 IN  <<d % LimbBase>> \o BSubC(Tail(a), Rest(b), 1 - (d \div LimbBase))
      [] op = "BSub" ->
        LET
            a == arg[1]
            b == arg[2]
        IN
         BTrim(BSubC(a, b, 0))
      [] op = "BCmpAt" ->
        LET
            a == arg[1]
            b == arg[2]
            i == arg[3]
        IN
            IF i = 0 THEN 0
            ELSE IF a[i] < b[i] THEN 0 - 1
            ELSE IF a[i] > b[i] THEN 1
            ELSE BCmpAt(a, b, i - 1)
      [] op = "BCmp" ->
        LET
            a == arg[1]
            b == arg[2]
        IN
            IF Len(a) < Len(b) THEN 0 - 1
            ELSE IF Len(a) > Len(b) THEN 1
            ELSE BCmpAt(a, b, Len(a))
      [] op = "BMulSmallC" ->
        LET
            a == arg[1]
            k == arg[2]
            c == arg[3]
        IN
            IF a = <<>> THEN (IF c = 0 THEN <<>> ELSE <<c>>)
            ELSE LET p == a[1] * k + c
                 IN  <<p % LimbBase>> \o BMulSmallC(Tail(a), k, p \div LimbBase)
      [] op = "BMulSmall" ->
        LET
            a == arg[1]
            k == arg[2]
        IN
         IF k = 0 THEN <<>> ELSE BMulSmallC(a, k, 0)
      [] op = "BMul" ->
        LET
            a == arg[1]
            b == arg[2]
        IN
            IF a = <<>> \/ b = <<>> THEN <<>>
            ELSE LET hi == BMul(a, Tail(b))
                 IN  BAdd(BMulSmall(a, b[1]), IF hi = <<>> THEN <<>> ELSE <<0>> \o hi)
      [] op = "BDivSmallR" ->
        LET
            a == arg[1]
            k == arg[2]
        IN
            IF a = <<>> THEN [q |-> <<>>, r |-> 0]
            ELSE LET hi  == BDivSmallR(Tail(a), k)
                     cur == hi.r * LimbBase + a[1]
                 IN  [q |-> <<cur \div k>> \o hi.q, r |-> cur % k]
      [] op = "BDivSmall" ->
        LET
            a == arg[1]
            k == arg[2]
        IN
            LET d == BDivSmallR(a, k) IN [q |-> BTrim(d.q), r |-> d.r]
      [] op = "BShl" ->
        LET
            a == arg[1]
            s == arg[2]
        IN
            IF a = <<>> THEN <<>>
            ELSE [i \in 1..(s \div LimbBits) |-> 0] \o BMulSmall(a, Pow2(s % LimbBits))
      [] op = "BShr" ->
        LET
            a == arg[1]
            s == arg[2]
        IN
            IF s \div LimbBits >= Len(a) THEN <<>>
            ELSE BDivSmall(SubSeq(a, (s \div LimbBits) + 1, Len(a)), Pow2(s % LimbBits)).q
      [] op = "BBitLen" ->
        LET
            a == arg[1]
        IN
            IF a = <<>> THEN 0 ELSE LimbBits * (Len(a) - 1) + NatBitLen(a[Len(a)])
      [] op = "BBitAt" ->
        LET
            a == arg[1]
            i == arg[2]
        IN
         (Limb(a, (i \div LimbBits) + 1) \div Pow2(i % LimbBits)) % 2
      [] op = "BLowBits" ->
        LET
            a == arg[1]
            s == arg[2]
        IN
         BShl(BShr(a, s), s) # a
      [] op = "FRound" ->
        LET
            sg == arg[1]
            m == arg[2]
            e == arg[3]
            sticky == arg[4]
        IN
            LET len == BBitLen(m) IN
            IF m = <<>> THEN FZero
            ELSE IF len <= MantBits
            THEN [sg |-> sg, m |-> BShl(m, MantBits - len), e |-> e - (MantBits - len)]
            ELSE LET sh == len - MantBits
                     q  == BShr(m, sh)
                     up == /\ BBitAt(m, sh - 1) = 1
                           /\ (sticky \/ BLowBits(m, sh - 1) \/ BIsOdd(q))
                     q2 == IF up THEN BAdd(q, <<1>>) ELSE q
                 IN  IF BBitLen(q2) > MantBits
                     THEN [sg |-> sg, m |-> BShr(q2, 1), e |-> e + sh + 1]
                     ELSE [sg |-> sg, m |-> q2, e |-> e + sh]
      [] op = "FFromInt" ->
        LET
            i == arg[1]
        IN
         FRound(IF i < 0 THEN 0 - 1 ELSE 1, BFromNat(Abs(i)), 0, FALSE)
      [] op = "FAdd" ->
        LET
            x == arg[1]
            y == arg[2]
        IN
            IF x.m = <<>> THEN y
            ELSE IF y.m = <<>> THEN x
            ELSE LET emin == IF x.e < y.e THEN x.e ELSE y.e
                     ax   == BShl(x.m, x.e - emin)
                     ay   == BShl(y.m, y.e - emin)
                     c    == BCmp(ax, ay)
                 IN  IF x.sg = y.sg THEN FRound(x.sg, BAdd(ax, ay), emin, FALSE)
                     ELSE IF c = 0 THEN FZero
                     ELSE IF c > 0 THEN FRound(x.sg, BSub(ax, ay), emin, FALSE)
                     ELSE FRound(y.sg, BSub(ay, ax), emin, FALSE)
      [] op = "FSub" ->
        LET
            x == arg[1]
            y == arg[2]
        IN
         FAdd(x, FNeg(y))
      [] op = "FMul" ->
        LET
            x == arg[1]
            y == arg[2]
        IN
            IF x.m = <<>> \/ y.m = <<>> THEN FZero
            ELSE FRound(x.sg * y.sg, BMul(x.m, y.m), x.e + y.e, FALSE)
      [] op = "FDivInt" ->
        LET
            x == arg[1]
            k == arg[2]
        IN
            IF x.m = <<>> THEN FZero
            ELSE LET d == BDivSmall(BShl(x.m, LimbBits + 2), Abs(k))
                 IN  FRound(IF k < 0 THEN 0 - x.sg ELSE x.sg, d.q,
                            x.e - (LimbBits + 2), d.r # 0)
      [] op = "ToFixedDigits" ->
        LET
            x == arg[1]
            d == arg[2]
        IN
            IF x.m = <<>> THEN 0
            ELSE LET t == BMulSmall(x.m, Pow10(d))
                 IN  IF x.e >= 0 THEN BToNat(BShl(t, x.e))
                     ELSE BToNat(BShr(BAdd(BShl(t, 1), BShl(<<1>>, 0 - x.e)), 1 - x.e))
      [] op = "RoundTo" ->
        LET
            x == arg[1]
            d == arg[2]
        IN
         FDivInt(FFromInt(ToFixedDigits(x, d)), Pow10(d))


----------------------------------------------------------------------------
(* Strings are sequences of one-character strings.                          *)

Digits == <<"0", "1", "2", "3", "4", "5", "6", "7", "8", "9",
            "a", "b", "c", "d", "e", "f">>

\* value of c as a digit of the radix, or -1
DigitValue(c, radix) ==
    LET lc == IF c = "A" THEN "a" ELSE IF c = "B" THEN "b"
              ELSE IF c = "C" THEN "c" ELSE IF c = "D" THEN "d"
              ELSE IF c = "E" THEN "e" ELSE IF c = "F" THEN "f" ELSE c
        hit == {i \in 1..radix : Digits[i] = lc}
    IN  IF hit = {} THEN 0 - 1 ELSE (CHOOSE i \in hit : TRUE) - 1

IsWhiteSpace(c) == c \in {" ", "\t", "\n", "\r"}

\* delimiters without the semicolon
\* delimiters without the comma
IsDelimiter_NoComma(c) == c = ";" \/ IsWhiteSpace(c)

IsDelimiter_NoSemicolon(c) == c = "," \/ IsWhiteSpace(c)

IsDelimiter(c) == c \in {",", ";"} \/ IsWhiteSpace(c)

RECURSIVE TrimStart(_)
TrimStart(s) ==
    IF s # <<>> /\ IsWhiteSpace(s[1]) THEN TrimStart(Tail(s)) ELSE s

RECURSIVE TrimEnd(_)
TrimEnd(s) ==
    IF s # <<>> /\ IsWhiteSpace(s[Len(s)])
    THEN TrimEnd(SubSeq(s, 1, Len(s) - 1)) ELSE s

\* String.prototype.trim
Trim(s) == TrimEnd(TrimStart(s))

RECURSIVE NatToString(_)
NatToString(k) ==
    IF k < 10 THEN <<Digits[k + 1]>>
    ELSE NatToString(k \div 10) \o <<Digits[(k % 10) + 1]>>

\* Number.prototype.toString of an integer below 10^21
NumToString(i) == IF i < 0 THEN <<"-">> \o NatToString(0 - i) ELSE NatToString(i)

RECURSIVE DigitRun(_, _, _)
\* the digits of the longest prefix of s in the radix: [n digits, v value]
DigitRun(s, radix, acc) ==
    IF s = <<>> \/ DigitValue(s[1], radix) < 0 THEN acc
    ELSE DigitRun(Tail(s), radix,
                  [n |-> acc.n + 1, v |-> acc.v * radix + DigitValue(s[1], radix)])

\* NaN without a digit, else the signed value: [nan, v]
ParseResult(neg, run) ==
    IF run.n = 0 THEN [nan |-> TRUE, v |-> 0]
    ELSE [nan |-> FALSE, v |-> IF neg THEN 0 - run.v ELSE run.v]

HasHexPrefix(u) == Len(u) >= 2 /\ u[1] = "0" /\ u[2] \in {"x", "X"}

ParseDigits(neg, u) ==
    ParseResult(neg, DigitRun(IF HasHexPrefix(u) THEN SubSeq(u, 3, Len(u)) ELSE u,
                              IF HasHexPrefix(u) THEN 16 ELSE 10,
                              [n |-> 0, v |-> 0]))

ParseSigned(t) ==
    ParseDigits(t # <<>> /\ t[1] = "-",
                IF t # <<>> /\ t[1] \in {"+", "-"} THEN Tail(t) ELSE t)

\* parseInt(s) without a radix
ParseInt(s) == ParseSigned(TrimStart(s))

----------------------------------------------------------------------------
(* An object used as a map: its entries in property order, which is the    *)
(* array-index keys in ascending numeric order followed by the other keys  *)
(* in the order of their creation.                                         *)

IsCanonicalIndex(key, p) == ~p.nan /\ p.v >= 0 /\ NumToString(p.v) = key

IsArrayIndex(key) == IsCanonicalIndex(key, ParseInt(key))

ObjHas(obj, key) == \E i \in 1..Len(obj) : obj[i].key = key

\* obj[key], undefined read as 0 (the code's `|| 0`)
ObjGet(obj, key) ==
    IF ObjHas(obj, key)
    THEN obj[CHOOSE i \in 1..Len(obj) : obj[i].key = key].val
    ELSE 0

\* the number of array-index keys of obj below index
IndexKeysBelow(obj, index) ==
    Cardinality({i \in 1..Len(obj) :
                    /\ IsArrayIndex(obj[i].key)
                    /\ ParseInt(obj[i].key).v < index})

InsertAfter(obj, k, entry) ==
    SubSeq(obj, 1, k) \o <<entry>> \o SubSeq(obj, k + 1, Len(obj))

ObjSet(obj, key, v) ==
    IF ObjHas(obj, key)
    THEN [i \in 1..Len(obj) |->
            IF obj[i].key = key THEN [key |-> key, val |-> v] ELSE obj[i]]
    ELSE IF IsArrayIndex(key)
    THEN InsertAfter(obj, IndexKeysBelow(obj, ParseInt(key).v),
                     [key |-> key, val |-> v])
    ELSE Append(obj, [key |-> key, val |-> v])

ObjectKeys(obj) == [i \in 1..Len(obj) |-> obj[i].key]

ObjectValues(obj) == [i \in 1..Len(obj) |-> obj[i].val]

----------------------------------------------------------------------------
(* Array helpers                                                            *)

RECURSIVE SumInts(_)
\* values.reduce((acc, val) => acc + val, 0)
SumInts(values) ==
    IF values = <<>> THEN 0
    ELSE SumInts(SubSeq(values, 1, Len(values) - 1)) + values[Len(values)]

Larger(a, b) == IF a > b THEN a ELSE b

Smaller(a, b) == IF a < b THEN a ELSE b

RECURSIVE MathMax(_)
MathMax(values) ==
    IF Len(values) = 1 THEN values[1]
    ELSE Larger(values[1], MathMax(Tail(values)))

RECURSIVE MathMin(_)
MathMin(values) ==
    IF Len(values) = 1 THEN values[1]
    ELSE Smaller(values[1], MathMin(Tail(values)))

RECURSIVE InsertSorted(_, _)
InsertSorted(sorted, x) ==
    IF sorted = <<>> THEN <<x>>
    ELSE IF x - sorted[Len(sorted)] >= 0 THEN Append(sorted, x)
    ELSE Append(InsertSorted(SubSeq(sorted, 1, Len(sorted) - 1), x),
                sorted[Len(sorted)])

RECURSIVE SortNumeric(_)
\* [...a].sort((a, b) => a - b): a stable sort of a copy
SortNumeric(a) ==
    IF a = <<>> THEN <<>>
    ELSE InsertSorted(SortNumeric(SubSeq(a, 1, Len(a) - 1)), a[Len(a)])

\* frequency[val] = (frequency[val] || 0) + 1
Increment(frequency, key) == ObjSet(frequency, key, ObjGet(frequency, key) + 1)

RECURSIVE CountInto(_, _)
\* the forEach loop over values, from left to right, on the object so far;
\* the loop over a long array is the loop over its first half followed by
\* the loop over its second half.  The object so far is evaluated on entry
\* (Len(frequency) >= 0 is always true), which keeps the evaluation of a
\* loop over n values O(log n) deep.
CountInto(frequency, values) ==
    IF Len(frequency) >= 0 /\ values = <<>> THEN frequency
    ELSE IF Len(values) = 1 THEN Increment(frequency, NumToString(values[1]))
    ELSE CountInto(CountInto(frequency, SubSeq(values, 1, Len(values) \div 2)),
                   SubSeq(values, (Len(values) \div 2) + 1, Len(values)))

\* values.forEach(val => { frequency[val] = (frequency[val] || 0) + 1; })
CountFrequencies(values) == CountInto(<<>>, values)

\* keys.map(key => parseInt(key))
ParseKeys(keys) == [i \in 1..Len(keys) |-> ParseInt(keys[i]).v]

----------------------------------------------------------------------------
(* The statistics functions                                                 *)

calcMean(values) ==
    IF Len(values) = 0 THEN FZero
    ELSE FDivInt(FFromInt(SumInts(values)), Len(values))

\* the arrays of the model are 1-based: sorted[middle] of the code is
\* sorted[middle + 1] here
\* a median that takes the upper central element whatever the parity
MedianOfSorted_Upper(sorted, middle) == FFromInt(sorted[middle + 1])

MedianOfSorted(sorted, middle) ==
    IF Len(sorted) % 2 = 0
    THEN FDivInt(FFromInt(sorted[middle] + sorted[middle + 1]), 2)
    ELSE FFromInt(sorted[middle + 1])

\* a median that reads the middle of the array as given
calcMedian_Unsorted(values) ==
    IF Len(values) = 0 THEN FZero
    ELSE MedianOfSorted(values, Len(values) \div 2)

calcMedian(values) ==
    IF Len(values) = 0 THEN FZero
    ELSE MedianOfSorted(SortNumeric(values), Len(values) \div 2)

\* a classification that looks at the number of modes first
ModeType_CountFirst(maxFreq, modes) ==
    IF Len(modes) = 1 THEN "unimodal"
    ELSE IF maxFreq = 1 THEN "ninguna"
    ELSE IF Len(modes) = 2 THEN "bimodal"
    ELSE "multimodal"

ModeType(maxFreq, modes) ==
    IF maxFreq = 1 THEN "ninguna"
    ELSE IF Len(modes) = 1 THEN "unimodal"
    ELSE IF Len(modes) = 2 THEN "bimodal"
    ELSE "multimodal"

\* a descriptor that calls every sample with several modes multimodal
ModeRecord_NoBimodal(maxFreq, modes) ==
    [modes |-> modes, frequency |-> maxFreq,
     type |-> IF maxFreq = 1 THEN "ninguna"
              ELSE IF Len(modes) = 1 THEN "unimodal"
              ELSE "multimodal"]

ModeRecord(maxFreq, modes) ==
    [modes |-> modes, frequency |-> maxFreq, type |-> ModeType(maxFreq, modes)]

\* Object.keys(frequency).filter(key => frequency[key] === maxFreq)
KeysWithFrequency(frequency, maxFreq) ==
    LET IsMax(key) == ObjGet(frequency, key) = maxFreq
    IN  SelectSeq(ObjectKeys(frequency), IsMax)

\* the modes in the order of the keys of the object
ModesOf_KeyOrder(frequency, maxFreq) ==
    ModeRecord(maxFreq, ParseKeys(KeysWithFrequency(frequency, maxFreq)))

ModesOf(frequency, maxFreq) ==
    ModeRecord(maxFreq,
               SortNumeric(ParseKeys(KeysWithFrequency(frequency, maxFreq))))

\* the values of the least frequency
ModeOfFrequencies_Least(frequency) ==
    ModesOf(frequency, MathMin(ObjectValues(frequency)))

ModeOfFrequencies(frequency) ==
    ModesOf(frequency, MathMax(ObjectValues(frequency)))

calcMode(values) ==
    IF Len(values) = 0 THEN [modes |-> <<>>, frequency |-> 0, type |-> "ninguna"]
    ELSE ModeOfFrequencies(CountFrequencies(values))

\* a range taken from the maximum down
calcRange_Downwards(values) ==
    IF Len(values) = 0 THEN 0 ELSE MathMin(values) - MathMax(values)

calcRange(values) ==
    IF Len(values) = 0 THEN 0 ELSE MathMax(values) - MathMin(values)

\* a deviation that is not squared
Square_Identity(x) == x

\* Math.pow(x, 2): the correctly rounded square
Square(x) == FMul(x, x)

RECURSIVE SquaredDiffsInto(_, _, _)
\* the reduce over values, from left to right, on the accumulator so far;
\* the reduce over a long array is the reduce over its first half followed
\* by the reduce over its second half.  The accumulator and the mean are
\* evaluated on entry (the sign of a Number is never 0), which keeps the
\* evaluation of a reduce over n values O(log n) deep.
SquaredDiffsInto(acc, values, mean) ==
    IF acc.sg # 0 /\ mean.sg # 0 /\ values = <<>> THEN acc
    ELSE IF Len(values) = 1
    THEN FAdd(acc, Square(FSub(FFromInt(values[1]), mean)))
    ELSE SquaredDiffsInto(
             SquaredDiffsInto(acc, SubSeq(values, 1, Len(values) \div 2), mean),
             SubSeq(values, (Len(values) \div 2) + 1, Len(values)), mean)

\* values.reduce((acc, val) => acc + Math.pow(val - mean, 2), 0)
SumSquaredDiffs(values, mean) == SquaredDiffsInto(FZero, values, mean)

\* a divisor that ignores the flag
Divisor_Population(values, population) == Len(values)

Divisor(values, population) ==
    IF population THEN Len(values) ELSE Len(values) - 1

\* a variance of the deviations from 0
calcVariance_AboutZero(values, population) ==
    IF Len(values) < 2 THEN FZero
    ELSE FDivInt(SumSquaredDiffs(values, FZero), Divisor(values, population))

calcVariance(values, population) ==
    IF Len(values) = 0 THEN FZero
    ELSE IF Len(values) = 1 THEN FZero
    ELSE FDivInt(SumSquaredDiffs(values, calcMean(values)),
                 Divisor(values, population))

\* a standard deviation that always takes the sample variance
calcStdDev_Sample(values, population) ==
    [sqrtOf |-> calcVariance(values, FALSE)]

\* Math.sqrt(calcVariance(values, population)); the square root of x is
\* kept as the record [sqrtOf |-> x]
calcStdDev(values, population) ==
    [sqrtOf |-> calcVariance(values, population)]

----------------------------------------------------------------------------
(* The frequency table                                                      *)

\* the row of one unique value, appended to the rows before it, and the
\* running sums after it
\* a row whose Fa and Fr are its own fa and fr
AppendRow_OwnCount(before, value, fa, fr, cumulativeFreq, cumulativeRelFreq) ==
    [rows |-> Append(before.rows,
                [value |-> value,
                 fa |-> fa,
                 fr |-> RoundTo(fr, 4),
                 Fa |-> fa,
                 Fr |-> RoundTo(fr, 4),
                 percentage |-> RoundTo(FMul(fr, FFromInt(100)), 2)]),
     cumulativeFreq |-> cumulativeFreq,
     cumulativeRelFreq |-> cumulativeRelFreq]

AppendRow(before, value, fa, fr, cumulativeFreq, cumulativeRelFreq) ==
    [rows |-> Append(before.rows,
                [value |-> value,
                 fa |-> fa,
                 fr |-> RoundTo(fr, 4),
                 Fa |-> cumulativeFreq,
                 Fr |-> RoundTo(cumulativeRelFreq, 4),
                 percentage |-> RoundTo(FMul(fr, FFromInt(100)), 2)]),
     cumulativeFreq |-> cumulativeFreq,
     cumulativeRelFreq |-> cumulativeRelFreq]

\* running sums of the rounded relative frequencies
Accumulate_Rounded(before, value, fa, fr) ==
    AppendRow(before, value, fa, fr,
              before.cumulativeFreq + fa,
              FAdd(before.cumulativeRelFreq, RoundTo(fr, 4)))

Accumulate(before, value, fa, fr) ==
    AppendRow(before, value, fa, fr,
              before.cumulativeFreq + fa, FAdd(before.cumulativeRelFreq, fr))

RowOf(before, value, fa, n) ==
    Accumulate(before, value, fa, FDivInt(FFromInt(fa), n))

RECURSIVE RowsInto(_, _, _, _)
\* the map over uniqueValues, from left to right, on the rows and the running
\* sums so far; the map over a long array is the map over its first half
\* followed by the map over its second half.  The rows so far and the object
\* are evaluated on entry (both tests are always true), which keeps the
\* evaluation of a map over n values O(log n) deep.
RowsInto(before, uniqueValues, frequency, n) ==
    IF before.cumulativeFreq >= 0 /\ Len(frequency) >= 0
          /\ uniqueValues = <<>>
    THEN before
    ELSE IF Len(uniqueValues) = 1
    THEN RowOf(before, uniqueValues[1],
               ObjGet(frequency, NumToString(uniqueValues[1])), n)
    ELSE RowsInto(
             RowsInto(before,
                      SubSeq(uniqueValues, 1, Len(uniqueValues) \div 2),
                      frequency, n),
             SubSeq(uniqueValues, (Len(uniqueValues) \div 2) + 1,
                    Len(uniqueValues)),
             frequency, n)

\* uniqueValues.map(value => ...)
FreqRows(uniqueValues, frequency, n) ==
    RowsInto([rows |-> <<>>, cumulativeFreq |-> 0, cumulativeRelFreq |-> FZero],
             uniqueValues, frequency, n)

\* rows in the order of the keys of the object
TableOfFrequencies_KeyOrder(frequency, n) ==
    FreqRows(ParseKeys(ObjectKeys(frequency)), frequency, n).rows

TableOfFrequencies(frequency, n) ==
    FreqRows(SortNumeric(ParseKeys(ObjectKeys(frequency))), frequency, n).rows

getFrequencyTable(values) ==
    IF Len(values) = 0 THEN <<>>
    ELSE TableOfFrequencies(CountFrequencies(values), Len(values))

----------------------------------------------------------------------------
(* parseInput.  src/script.js rejects negative integers (allowNegative     *)
(* FALSE); the copy in src/test_calculations.js accepts them (TRUE).       *)

RECURSIVE SplitFrom(_, _, _, _)
\* the pieces of s between the maximal runs of delimiters
SplitFrom(s, pieces, cur, inRun) ==
    IF s = <<>> THEN Append(pieces, cur)
    ELSE IF IsDelimiter(s[1])
    THEN (IF inRun THEN SplitFrom(Tail(s), pieces, cur, TRUE)
          ELSE SplitFrom(Tail(s), Append(pieces, cur), <<>>, TRUE))
    ELSE SplitFrom(Tail(s), pieces, Append(cur, s[1]), FALSE)

\* s.split(/[,;\s\n\r]+/)
Split(s) == SplitFrom(s, <<>>, <<>>, FALSE)

\* a filter that keeps every piece
NonEmptyPiece_All(val) == TRUE

NonEmptyPiece(val) == Trim(val) # <<>>

\* a test without the comparison of the number's string with the token
TokenTest_NoCanonical(trimmed, parsed, allowNegative) ==
    \/ parsed.nan
    \/ (~allowNegative /\ parsed.v < 0)

\* the test of script.js:34 / test_calculations.js:96 on one trimmed token
TokenTest(trimmed, parsed, allowNegative) ==
    \/ parsed.nan
    \/ NumToString(parsed.v) # trimmed
    \/ (~allowNegative /\ parsed.v < 0)

\* a test that rejects negative numbers in both copies
IsInvalidToken_Unsigned(trimmed, allowNegative) ==
    TokenTest(trimmed, ParseInt(trimmed), FALSE)

IsInvalidToken(trimmed, allowNegative) ==
    TokenTest(trimmed, ParseInt(trimmed), allowNegative)

\* a loop body that records the first invalid token only
ScanToken_FirstOnly(before, trimmed, allowNegative) ==
    IF IsInvalidToken(trimmed, allowNegative)
    THEN (IF before.invalidValues = <<>>
          THEN [before EXCEPT !.invalidValues = Append(@, trimmed)]
          ELSE before)
    ELSE [before EXCEPT !.numbers = Append(@, ParseInt(trimmed).v)]

ScanToken(before, trimmed, allowNegative) ==
    IF IsInvalidToken(trimmed, allowNegative)
    THEN [before EXCEPT !.invalidValues = Append(@, trimmed)]
    ELSE [before EXCEPT !.numbers = Append(@, ParseInt(trimmed).v)]

RECURSIVE ScanTokens(_, _)
\* the for loop: [numbers, invalidValues]
ScanTokens(rawValues, allowNegative) ==
    IF rawValues = <<>> THEN [numbers |-> <<>>, invalidValues |-> <<>>]
    ELSE ScanToken(ScanTokens(SubSeq(rawValues, 1, Len(rawValues) - 1),
                              allowNegative),
                   Trim(rawValues[Len(rawValues)]), allowNegative)

\* a failure that returns an empty sample instead of throwing
Thrown_EmptySample(error, rawValues, invalidValues) ==
    [status |-> "ok", numbers |-> <<>>, rawValues |-> rawValues,
     invalidValues |-> invalidValues]

Thrown(error, rawValues, invalidValues) ==
    [status |-> error, numbers |-> <<>>, rawValues |-> rawValues,
     invalidValues |-> invalidValues]

\* an outcome that looks at the numbers before the invalid values
Outcome_NumbersFirst(rawValues, scan) ==
    IF Len(rawValues) = 0 THEN Thrown("NoTokens", rawValues, <<>>)
    ELSE IF Len(scan.numbers) = 0
    THEN Thrown("NoValidTokens", rawValues, <<>>)
    ELSE IF Len(scan.invalidValues) > 0
    THEN Thrown("InvalidTokens", rawValues, scan.invalidValues)
    ELSE [status |-> "ok", numbers |-> scan.numbers,
          rawValues |-> rawValues, invalidValues |-> <<>>]

Outcome(rawValues, scan) ==
    IF Len(rawValues) = 0 THEN Thrown("NoTokens", rawValues, <<>>)
    ELSE IF Len(scan.invalidValues) > 0
    THEN Thrown("InvalidTokens", rawValues, scan.invalidValues)
    ELSE IF Len(scan.numbers) = 0
    THEN Thrown("NoValidTokens", rawValues, <<>>)
    ELSE [status |-> "ok", numbers |-> scan.numbers,
          rawValues |-> rawValues, invalidValues |-> <<>>]

\* a parse that returns the valid tokens whenever there are any
ParseTokens_Partial(rawValues, allowNegative) ==
    IF Len(ScanTokens(rawValues, allowNegative).numbers) > 0
    THEN [status |-> "ok",
          numbers |-> ScanTokens(rawValues, allowNegative).numbers,
          rawValues |-> rawValues, invalidValues |-> <<>>]
    ELSE Outcome(rawValues, ScanTokens(rawValues, allowNegative))

ParseTokens(rawValues, allowNegative) ==
    Outcome(rawValues, ScanTokens(rawValues, allowNegative))

\* a parse that takes only the empty text for empty
parseInput_EmptyOnly(inputString, allowNegative) ==
    IF inputString = <<>>
    THEN Thrown("EmptyInput", <<>>, <<>>)
    ELSE ParseTokens(SelectSeq(Split(Trim(inputString)), NonEmptyPiece),
                     allowNegative)

parseInput(inputString, allowNegative) ==
    IF inputString = <<>> \/ Trim(inputString) = <<>>
    THEN Thrown("EmptyInput", <<>>, <<>>)
    ELSE ParseTokens(SelectSeq(Split(Trim(inputString)), NonEmptyPiece),
                     allowNegative)

----------------------------------------------------------------------------
(* State                                                                    *)

VARIABLES
    values,         \* the sample handed to the statistics functions
    population,     \* the population flag handed to calcVariance
    out,            \* <<results>> of the functions on values, <<>> before
    ref,            \* <<results>> on the first ordering of the sample
    inputString,    \* the text handed to parseInput
    allowNegative,  \* which copy of parseInput runs
    parsed,         \* <<outcome>> of parseInput, <<>> before the call
    page            \* the document and the globals validateAndProcess writes

vars == <<values, population, out, ref, inputString, allowNegative, parsed, page>>

MaxLen == 3
NegVals == 1
MaxVal == 3
MaxText == 3
LongMaxLen == 6
LongNegVals == 1
LongMaxVal == 1

SampleValues == (0 - NegVals)..MaxVal

Samples == UNION {[1..n -> SampleValues] : n \in 1..MaxLen}

\* longer samples of fewer values: every mode type and even sizes occur
LongSamples ==
    UNION {[1..n -> (0 - LongNegVals)..LongMaxVal] : n \in 1..LongMaxLen}

TextChars == {"0", "1", "+", "-", ".", "a", "x", ",", " "}

Texts == UNION {[1..n -> TextChars] : n \in 0..MaxText}

\* the record validateAndProcess builds, with the frequency table
Results(vs, pop) ==
    [n         |-> Len(vs),
     sum       |-> SumInts(vs),
     min       |-> MathMin(vs),
     max       |-> MathMax(vs),
     mean      |-> calcMean(vs),
     median    |-> calcMedian(vs),
     modeInfo  |-> calcMode(vs),
     range     |-> calcRange(vs),
     variance  |-> calcVariance(vs, pop),
     stdDev    |-> calcStdDev(vs, pop),
     freqTable |-> getFrequencyTable(vs)]

\* no document: the functions are called on their own
NoPage == <<>>

Swap(a, i, j) ==
    [k \in 1..Len(a) |-> IF k = i THEN a[j] ELSE IF k = j THEN a[i] ELSE a[k]]

----------------------------------------------------------------------------
(* The statistics engine on one sample and on its reorderings               *)

Init ==
    /\ page = NoPage
    /\ values \in Samples
    /\ population \in BOOLEAN
    /\ out = <<>>
    /\ ref = <<>>
    /\ inputString = <<>>
    /\ allowNegative = FALSE
    /\ parsed = <<>>

Analyze ==
    /\ out = <<>>
    /\ out' = <<Results(values, population)>>
    /\ UNCHANGED <<values, population, ref, inputString, allowNegative, parsed, page>>

\* the caller presents the same sample in another order
Reorder ==
    /\ out # <<>>
    /\ \E i, j \in 1..Len(values) :
          /\ i < j
          /\ values[i] # values[j]
          /\ values' = Swap(values, i, j)
    /\ ref' = IF ref = <<>> THEN out ELSE ref
    /\ out' = <<>>
    /\ UNCHANGED <<population, inputString, allowNegative, parsed, page>>

Next == Analyze \/ Reorder

Spec == Init /\ [][Next]_vars

----------------------------------------------------------------------------
(* The statistics engine on longer samples                                  *)

InitLong ==
    /\ page = NoPage
    /\ values \in LongSamples
    /\ population \in BOOLEAN
    /\ out = <<>>
    /\ ref = <<>>
    /\ inputString = <<>>
    /\ allowNegative = FALSE
    /\ parsed = <<>>

NextLong == Analyze

SpecLong == InitLong /\ [][NextLong]_vars

----------------------------------------------------------------------------
(* parseInput on one text                                                   *)

InitParse ==
    /\ page = NoPage
    /\ inputString \in Texts
    /\ allowNegative \in BOOLEAN
    /\ parsed = <<>>
    /\ values = <<0>>
    /\ population = TRUE
    /\ out = <<>>
    /\ ref = <<>>

Parse ==
    /\ parsed = <<>>
    /\ parsed' = <<parseInput(inputString, allowNegative)>>
    /\ UNCHANGED <<values, population, out, ref, inputString, allowNegative, page>>

NextParse == Parse

SpecParse == InitParse /\ [][NextParse]_vars

----------------------------------------------------------------------------
(* parseInput on a list of tokens, and the statistics of the parsed sample  *)

MaxTokens == 3

TokenChoices ==
    { <<"1">>, <<"-", "1">>, <<"1", "0">>, <<"+", "1">>, <<"a">> }

SepChoices == { <<",">>, <<" ">>, <<";", "\n">> }

RECURSIVE JoinTokens(_, _)
\* the text of the tokens with the separators between them
JoinTokens(tokens, seps) ==
    IF Len(tokens) = 1 THEN tokens[1]
    ELSE JoinTokens(SubSeq(tokens, 1, Len(tokens) - 1),
                    SubSeq(seps, 1, Len(seps) - 1))
            \o seps[Len(seps)] \o tokens[Len(tokens)]

TokenTexts ==
    UNION { { JoinTokens(tokens, seps) :
                tokens \in [1..n -> TokenChoices],
                seps \in [1..(n - 1) -> SepChoices] } : n \in 1..MaxTokens }

\* texts without a token
TokenlessTexts == { <<>>, <<" ">>, <<",">>, <<";", " ">>, <<" ", "\n">> }

InitTokens ==
    /\ page = NoPage
    /\ inputString \in TokenTexts \cup TokenlessTexts
    /\ allowNegative \in BOOLEAN
    /\ parsed = <<>>
    /\ values = <<0>>
    /\ population = TRUE
    /\ out = <<>>
    /\ ref = <<>>

\* validateAndProcess after parseInput returned: the statistics and the
\* frequency table of the parsed sample
Process ==
    /\ parsed # <<>>
    /\ parsed[1].status = "ok"
    /\ ~allowNegative
    /\ out = <<>>
    /\ values' = parsed[1].numbers
    /\ out' = <<Results(parsed[1].numbers, TRUE)>>
    /\ UNCHANGED <<population, ref, inputString, allowNegative, parsed, page>>

NextTokens == Parse \/ Process

SpecTokens == InitTokens /\ [][NextTokens]_vars

----------------------------------------------------------------------------
(* parseInput on one list of tokens under changing delimiters               *)

MaxDelimTokens == 3
MaxDelimText == 6

DelimTokenChoices == { <<"1">>, <<"9">>, <<"a">> }

DelimChars == {",", ";", " ", "\n"}

Commas(n) == [i \in 1..n |-> <<",">>]

InsertAt(s, i, c) == SubSeq(s, 1, i) \o <<c>> \o SubSeq(s, i + 1, Len(s))

\* position i of s (after the i-th character) is not inside a token
DelimiterSlot(s, i) ==
    IF i = 0 \/ i = Len(s) THEN TRUE
    ELSE s[i] \in DelimChars \/ s[i + 1] \in DelimChars

InitDelims ==
    /\ page = NoPage
    /\ inputString \in
          UNION { { JoinTokens(tokens, Commas(n - 1)) :
                      tokens \in [1..n -> DelimTokenChoices] } :
                  n \in 1..MaxDelimTokens }
    /\ allowNegative \in BOOLEAN
    /\ parsed = <<>>
    /\ values = <<0>>
    /\ population = TRUE
    /\ out = <<>>
    /\ ref = <<>>

\* the caller presents the same tokens with other delimiters: one delimiter
\* replaced by another, or one more delimiter in a run, before the first
\* token or after the last
Redelimit ==
    /\ parsed # <<>>
    /\ \/ \E i \in 1..Len(inputString), c \in DelimChars :
             /\ inputString[i] \in DelimChars
             /\ inputString[i] # c
             /\ inputString' = [inputString EXCEPT ![i] = c]
       \/ \E i \in 0..Len(inputString), c \in DelimChars :
             /\ Len(inputString) < MaxDelimText
             /\ DelimiterSlot(inputString, i)
             /\ inputString' = InsertAt(inputString, i, c)
    /\ ref' = IF ref = <<>> THEN parsed ELSE ref
    /\ parsed' = <<>>
    /\ UNCHANGED <<values, population, out, allowNegative, page>>

NextDelims == Parse \/ Redelimit

SpecDelims == InitDelims /\ [][NextDelims]_vars

----------------------------------------------------------------------------
(* getFrequencyTable on large samples of two values                         *)

TableSize == 160
MaxFirstCount == 60

Repeat(v, n) == [i \in 1..n |-> v]

InitTable ==
    /\ page = NoPage
    /\ values \in { Repeat(0, c) \o Repeat(1, TableSize - c) : c \in 1..MaxFirstCount }
    /\ population = TRUE
    /\ out = <<>>
    /\ ref = <<>>
    /\ inputString = <<>>
    /\ allowNegative = FALSE
    /\ parsed = <<>>

\* a call of getFrequencyTable alone
Tabulate ==
    /\ out = <<>>
    /\ out' = <<[freqTable |-> getFrequencyTable(values)]>>
    /\ UNCHANGED <<values, population, ref, inputString, allowNegative, parsed, page>>

NextTable == Tabulate

SpecTable == InitTable /\ [][NextTable]_vars

----------------------------------------------------------------------------
(* The statistics functions called one after another on one array           *)

Functions ==
    {"calcMean", "calcMedian", "calcMode", "calcRange", "calcVariance",
     "calcStdDev", "getFrequencyTable"}

\* an array sorted in place by sort((a, b) => a - b): the array after the
\* call, which sort also returns
SortInPlace(array) == SortNumeric(array)

\* a sort in place that reaches the caller's array
SortedCopy_Shared(array) ==
    [sorted |-> SortInPlace(array), values |-> SortInPlace(array)]

\* const sorted = [...values].sort((a, b) => a - b): the spread makes a new
\* array, sort sorts that one in place; values is the caller's array after
SortedCopy(array) ==
    [sorted |-> SortInPlace(array), values |-> array]

\* the caller's array after a call of fn on it: calcMedian sorts, the other
\* functions only read (reduce, forEach, spread into Math.max and Math.min)
ArrayAfter(fn, array) ==
    IF fn = "calcMedian" /\ Len(array) # 0 THEN SortedCopy(array).values
    ELSE array

\* what fn returns; Math.sqrt(x) is kept as [sqrtOf |-> x]
ReturnOf(fn, array, pop) ==
    CASE fn = "calcMean" -> calcMean(array)
      [] fn = "calcMedian" -> calcMedian(array)
      [] fn = "calcMode" -> calcMode(array)
      [] fn = "calcRange" -> calcRange(array)
      [] fn = "calcVariance" -> calcVariance(array, pop)
      [] fn = "calcStdDev" -> calcStdDev(array, pop)
      [] fn = "getFrequencyTable" -> getFrequencyTable(array)

\* ref keeps the array as the caller built it
InitCalls ==
    /\ page = NoPage
    /\ values \in Samples
    /\ population \in BOOLEAN
    /\ out = <<>>
    /\ ref = <<values>>
    /\ inputString = <<>>
    /\ allowNegative = FALSE
    /\ parsed = <<>>

\* one call of one of the functions on the array
Call ==
    /\ \E fn \in Functions :
          /\ out' = <<[fn |-> fn, result |-> ReturnOf(fn, values, population)]>>
          /\ values' = ArrayAfter(fn, values)
    /\ UNCHANGED <<population, ref, inputString, allowNegative, parsed, page>>

NextCalls == Call

SpecCalls == InitCalls /\ [][NextCalls]_vars

----------------------------------------------------------------------------
(* parseInput on the text of its own output                                 *)

RECURSIVE JoinWithCommas(_)
\* numbers.join(","): the decimal strings of the numbers with commas between
JoinWithCommas(numbers) ==
    IF Len(numbers) = 1 THEN NumToString(numbers[1])
    ELSE JoinWithCommas(SubSeq(numbers, 1, Len(numbers) - 1))
            \o <<",">> \o NumToString(numbers[Len(numbers)])

\* the caller hands the sample parseInput returned back as a text; ref keeps
\* the outcome of the first text
Rejoin ==
    /\ parsed # <<>>
    /\ parsed[1].status = "ok"
    /\ ref = <<>>
    /\ inputString' = JoinWithCommas(parsed[1].numbers)
    /\ ref' = parsed
    /\ parsed' = <<>>
    /\ UNCHANGED <<values, population, out, allowNegative, page>>

NextRoundTrip == Parse \/ Rejoin

SpecRoundTrip == InitTokens /\ [][NextRoundTrip]_vars

----------------------------------------------------------------------------
(* validateAndProcess on the page: the document, the charts, the globals    *)

MaxCharts == 6

\* the page as it is loaded. chartLibrary: the global Chart of Chart.js, which
\* the script uses and does not define, is there. The display of the two
\* sections is "" until the script sets it. charts are the Chart instances
\* in the order of their creation; barChart and pieChart are the globals of
\* that name: the number of an instance, 0 for null. currentData is
\* window.currentData, <<>> while undefined
LoadedPage(chartLibrary) ==
    [chartLibrary   |-> chartLibrary,
     errorDisplay   |-> "",
     errorHTML      |-> <<>>,
     resultsDisplay |-> "",
     summary        |-> <<>>,
     table          |-> <<>>,
     conclusions    |-> <<>>,
     charts         |-> <<>>,
     barChart       |-> 0,
     pieChart       |-> 0,
     currentData    |-> <<>>]

\* the first statements of validateAndProcess
ClearError(p) == [p EXCEPT !.errorDisplay = "none", !.errorHTML = <<>>]

\* a catch block that leaves the results section as it is
Caught_ResultsLeft(p, message) ==
    [p EXCEPT !.errorHTML = <<message>>, !.errorDisplay = "block"]

\* the catch block; message stands for error.message
Caught(p, message) ==
    [p EXCEPT !.errorHTML = <<message>>,
              !.errorDisplay = "block",
              !.resultsDisplay = "none"]

\* the message of the Error parseInput throws
MessageOf(outcome) ==
    [error |-> outcome.status, invalidValues |-> outcome.invalidValues]

\* the ReferenceError of new Chart(...) where Chart is not defined
ChartNotDefined == [error |-> "Chart is not defined", invalidValues |-> <<>>]

RECURSIVE JoinNumbers(_)
\* modes.join(', ')
JoinNumbers(modes) ==
    IF Len(modes) = 1 THEN NumToString(modes[1])
    ELSE JoinNumbers(SubSeq(modes, 1, Len(modes) - 1))
            \o <<",", " ">> \o NumToString(modes[Len(modes)])

\* stats.modeText
ModeText(modeInfo) ==
    IF modeInfo.type = "ninguna" THEN <<"No hay moda">>
    ELSE IF Len(modeInfo.modes) = 1 THEN NumToString(modeInfo.modes[1])
    ELSE JoinNumbers(modeInfo.modes)

\* the object stats of validateAndProcess, from the record of the results
StatsOf(r) ==
    [n        |-> r.n,
     sum      |-> r.sum,
     min      |-> r.min,
     max      |-> r.max,
     mean     |-> r.mean,
     median   |-> r.median,
     modeInfo |-> r.modeInfo,
     range    |-> r.range,
     variance |-> r.variance,
     stdDev   |-> r.stdDev,
     modeText |-> ModeText(r.modeInfo)]

\* the values of the cards renderSummary puts into the emptied container;
\* the mean is shown by toFixed(2), kept as its digits
renderSummary(p, stats) ==
    [p EXCEPT !.summary =
        <<[n      |-> stats.n,
           sum    |-> stats.sum,
           min    |-> stats.min,
           max    |-> stats.max,
           mean   |-> ToFixedDigits(stats.mean, 2),
           median |-> stats.median,
           moda   |-> stats.modeText]>>]

\* the table replaces the content of the container; no rows, no change
buildFreqTableDOM(p, freqRows) ==
    IF Len(freqRows) = 0 THEN p
    ELSE [p EXCEPT !.table = <<freqRows>>]

\* chart.destroy() on the instance a global holds, if it holds one
Destroy(charts, held) ==
    IF held = 0 THEN charts
    ELSE [charts EXCEPT ![held].destroyed = TRUE]

\* a chart that is created without destroying the one held
DestroyThenCreate_KeepOld(p, global, chart) ==
    IF ~p.chartLibrary THEN [page |-> p, thrown |-> <<ChartNotDefined>>]
    ELSE [page |-> [p EXCEPT !.charts = Append(p.charts, chart),
                             ![global] = Len(p.charts) + 1],
          thrown |-> <<>>]

\* if (chart) chart.destroy(); chart = new Chart(ctx, ...): the instance held
\* is destroyed, then the constructor runs, and throws where Chart is not
\* defined; the assignment happens when it returns
DestroyThenCreate(p, global, chart) ==
    IF ~p.chartLibrary
    THEN [page |-> [p EXCEPT !.charts = Destroy(p.charts, p[global])],
          thrown |-> <<ChartNotDefined>>]
    ELSE [page |-> [p EXCEPT !.charts =
                                Append(Destroy(p.charts, p[global]), chart),
                             ![global] = Len(p.charts) + 1],
          thrown |-> <<>>]

\* the labels and data of the bar chart: row.value and row.fa
drawBarChart(p, freqRows) ==
    DestroyThenCreate(p, "barChart",
        [type      |-> "bar",
         labels    |-> [i \in DOMAIN freqRows |-> freqRows[i].value],
         data      |-> [i \in DOMAIN freqRows |-> freqRows[i].fa],
         destroyed |-> FALSE])

\* the labels and data of the pie chart: row.value and row.percentage
drawPieChart(p, freqRows) ==
    DestroyThenCreate(p, "pieChart",
        [type      |-> "pie",
         labels    |-> [i \in DOMAIN freqRows |-> freqRows[i].value],
         data      |-> [i \in DOMAIN freqRows |-> freqRows[i].percentage],
         destroyed |-> FALSE])

\* freqRows.find(row => row.value === value)
FindRow(freqRows, value) ==
    freqRows[CHOOSE i \in DOMAIN freqRows :
                /\ freqRows[i].value = value
                /\ \A j \in DOMAIN freqRows :
                      freqRows[j].value = value => i <= j]

RowValues(freqRows) == [i \in DOMAIN freqRows |-> freqRows[i].value]

\* the numbers the text of the conclusions is made of
generateAutomaticConclusions(freqRows, stats) ==
    [minErrorCount |-> MathMin(RowValues(freqRows)),
     minFa         |-> FindRow(freqRows, MathMin(RowValues(freqRows))).fa,
     minPercentage |->
         FindRow(freqRows, MathMin(RowValues(freqRows))).percentage,
     maxErrorCount |-> MathMax(RowValues(freqRows)),
     maxFa         |-> FindRow(freqRows, MathMax(RowValues(freqRows))).fa,
     maxPercentage |->
         FindRow(freqRows, MathMax(RowValues(freqRows))).percentage]

\* an end of the try block that stores window.currentData only once
Shown_FirstData(p, numbers, stats, freqTable) ==
    [p EXCEPT !.conclusions =
                  <<generateAutomaticConclusions(freqTable, stats)>>,
              !.resultsDisplay = "block",
              !.currentData = IF p.currentData # <<>> THEN p.currentData
                              ELSE <<[values    |-> numbers,
                                      stats     |-> stats,
                                      freqTable |-> freqTable]>>]

\* the end of the try block: the conclusions, the results section shown,
\* window.currentData
Shown(p, numbers, stats, freqTable) ==
    [p EXCEPT !.conclusions =
                  <<generateAutomaticConclusions(freqTable, stats)>>,
              !.resultsDisplay = "block",
              !.currentData = <<[values    |-> numbers,
                                 stats     |-> stats,
                                 freqTable |-> freqTable]>>]

\* after drawPieChart
AfterPie(drawn, numbers, stats, freqTable) ==
    IF drawn.thrown # <<>> THEN Caught(drawn.page, drawn.thrown[1])
    ELSE Shown(drawn.page, numbers, stats, freqTable)

\* after drawBarChart
AfterBar(drawn, numbers, stats, freqTable) ==
    IF drawn.thrown # <<>> THEN Caught(drawn.page, drawn.thrown[1])
    ELSE AfterPie(drawPieChart(drawn.page, freqTable),
                  numbers, stats, freqTable)

\* the try block from renderSummary on
Render(p, numbers, stats, freqTable) ==
    AfterBar(drawBarChart(buildFreqTableDOM(renderSummary(p, stats),
                                            freqTable),
                          freqTable),
             numbers, stats, freqTable)

\* the try block on the outcome of parseInput; results holds the record of
\* the results when there is a sample
Try(p, outcome, results) ==
    IF outcome.status # "ok" THEN Caught(p, MessageOf(outcome))
    ELSE Render(p, outcome.numbers, StatsOf(results[1]),
                results[1].freqTable)

\* the texts the user puts into the input element
PageTexts ==
    { <<>>, <<"a">>, <<"1">>, <<"1", ",", "9">>, <<"9", " ", "9", ";", "1">>,
      <<"1", ",", "x">> }

InitPage ==
    /\ inputString \in PageTexts
    /\ allowNegative = FALSE
    /\ parsed = <<>>
    /\ values = <<0>>
    /\ population = TRUE
    /\ out = <<>>
    /\ ref = <<>>
    /\ page \in {LoadedPage(chartLibrary) : chartLibrary \in BOOLEAN}

\* the handler of the button, as a whole. parsed keeps what parseInput did
\* and ref the text of the request; values and out keep the sample and its
\* results when the request has a sample
validateAndProcess ==
    /\ Len(page.charts) + 2 <= MaxCharts
    /\ parsed' = <<parseInput(inputString, FALSE)>>
    /\ ref' = <<inputString>>
    /\ values' = IF parsed'[1].status = "ok" THEN parsed'[1].numbers
                 ELSE values
    /\ out' = IF parsed'[1].status = "ok" THEN <<Results(values', TRUE)>>
              ELSE <<>>
    /\ page' = Try(ClearError(page), parsed'[1], out')
    /\ UNCHANGED <<population, inputString, allowNegative>>

\* the user changes the text of the input element
Edit ==
    /\ \E text \in PageTexts :
          /\ text # inputString
          /\ inputString' = text
    /\ UNCHANGED <<values, population, out, ref, allowNegative, parsed, page>>

NextPage == validateAndProcess \/ Edit

SpecPage == InitPage /\ [][NextPage]_vars

----------------------------------------------------------------------------
(* validateAndProcess on the reference input of the verification script     *)

\* testData of test_calculations.js, as the tokens of the text
ReferenceTokens ==
    << <<"1", "3">>, <<"9">>, <<"1", "4">>, <<"1", "1">>, <<"8">>,
       <<"1", "1">>, <<"1", "0">>, <<"8">>, <<"4">>, <<"1", "1">> >>

ReferenceSeps == { <<",">>, <<" ">> }

\* the reference input with a comma or a space between the tokens
ReferenceTexts ==
    { JoinTokens(ReferenceTokens, seps) :
        seps \in [1..(Len(ReferenceTokens) - 1) -> ReferenceSeps] }

InitReference ==
    /\ inputString \in ReferenceTexts
    /\ allowNegative = FALSE
    /\ parsed = <<>>
    /\ values = <<0>>
    /\ population = TRUE
    /\ out = <<>>
    /\ ref = <<>>
    /\ page = LoadedPage(TRUE)

\* one request
Submit ==
    /\ parsed = <<>>
    /\ validateAndProcess

NextReference == Submit

SpecReference == InitReference /\ [][NextReference]_vars

----------------------------------------------------------------------------
(* Properties                                                               *)

Analyzed == out # <<>>

Reanalyzed == out # <<>> /\ ref # <<>>

ValueSet(vs) == {vs[i] : i \in DOMAIN vs}

Count(vs, v) == Cardinality({i \in DOMAIN vs : vs[i] = v})

MaxCount(vs) ==
    CHOOSE c \in 1..Len(vs) :
        /\ \E v \in ValueSet(vs) : Count(vs, v) = c
        /\ \A v \in ValueSet(vs) : Count(vs, v) <= c

StrictlyAscending(a) == \A i, j \in DOMAIN a : i < j => a[i] < a[j]

\* the k-th smallest element of vs, duplicates counted
OrderStatistic(vs, k) ==
    CHOOSE x \in ValueSet(vs) :
        /\ Cardinality({i \in DOMAIN vs : vs[i] < x}) < k
        /\ Cardinality({i \in DOMAIN vs : vs[i] <= x}) >= k

\* x <= y for Numbers
FLessEq(x, y) == FSub(y, x).sg = 1

FAbs(x) == [x EXCEPT !.sg = 1]

FMax(x, y) == IF FLessEq(x, y) THEN y ELSE x

\* |x - y| <= k * 2^-bits * max(|x|, |y|)
CloseTo(x, y, k, bits) ==
    FLessEq(FAbs(FSub(x, y)),
            FMul(FFromInt(k),
                 [FMax(FAbs(x), FAbs(y)) EXCEPT !.e = @ - bits]))


\* C1 as stated: for every non-empty sample and every reordering of it,
\* calcMean, calcMedian, calcMode, calcRange, calcVariance (either divisor)
\* and getFrequencyTable return identical results.
C1_OrderInvariant ==
    Reanalyzed =>
        /\ out[1].mean = ref[1].mean
        /\ out[1].median = ref[1].median
        /\ out[1].modeInfo = ref[1].modeInfo
        /\ out[1].range = ref[1].range
        /\ out[1].freqTable = ref[1].freqTable
        /\ out[1].variance = ref[1].variance

\* C1 amended: for every non-empty sample and every reordering of it,
\* calcMean, calcMedian, calcMode, calcRange and getFrequencyTable return
\* identical results, and the results of calcVariance (either divisor) agree
\* up to the rounding of the floating-point sum: they differ by at most
\* n * 2^-52 of the larger one.
C1_OrderInvariantUpToRounding ==
    Reanalyzed =>
        /\ out[1].mean = ref[1].mean
        /\ out[1].median = ref[1].median
        /\ out[1].modeInfo = ref[1].modeInfo
        /\ out[1].range = ref[1].range
        /\ out[1].freqTable = ref[1].freqTable
        /\ CloseTo(out[1].variance, ref[1].variance, Len(values), 52)

\* a reordering changed the variance, and nothing else
C1_Witness ==
    /\ Reanalyzed
    /\ out[1].variance # ref[1].variance
    /\ out[1].median = ref[1].median
    /\ out[1].freqTable = ref[1].freqTable

\* C2: for every non-empty sample of size n the rows of getFrequencyTable
\* have fa summing to n, the last Fa equal to n, and the last Fr equal to 1
\* at 4 decimals.
C2_TableTotals ==
    Analyzed =>
        LET t    == out[1].freqTable
            last == t[Len(t)]
        IN  /\ Len(t) >= 1
            /\ SumInts([i \in 1..Len(t) |-> t[i].fa]) = Len(values)
            /\ last.Fa = Len(values)
            /\ ToFixedDigits(last.Fr, 4) = 10000
            /\ last.Fr = FFromInt(1)

\* three rows of one third each
C2_Witness ==
    /\ Analyzed
    /\ Len(out[1].freqTable) = 3
    /\ Len(values) = 3
    /\ ToFixedDigits(out[1].freqTable[1].fr, 4) = 3333

\* C3: for every non-empty sample, negative integers included,
\* getFrequencyTable returns one row per distinct value, in strictly
\* ascending order of value, each with fa the number of occurrences of its
\* value.
C3_RowsPerDistinctValue ==
    Analyzed =>
        LET t == out[1].freqTable
        IN  /\ {t[i].value : i \in 1..Len(t)} = ValueSet(values)
            /\ Len(t) = Cardinality(ValueSet(values))
            /\ StrictlyAscending([i \in 1..Len(t) |-> t[i].value])
            /\ \A i \in 1..Len(t) : t[i].fa = Count(values, t[i].value)

\* a sample with a negative value after a larger one, and a repeated value
C3_Witness ==
    /\ Analyzed
    /\ Len(values) = 3
    /\ values[1] > 0
    /\ values[2] < 0
    /\ values[3] = values[1]
    /\ Len(out[1].freqTable) = 2

\* C4: for every non-empty sample and both divisor policies calcVariance is
\* >= 0, and it is 0 exactly when all values are equal or n = 1.
C4_VarianceSign ==
    Analyzed =>
        /\ out[1].variance.sg = 1
        /\ (out[1].variance = FZero)
              <=> (Cardinality(ValueSet(values)) = 1 \/ Len(values) = 1)

C4_Witness ==
    /\ Analyzed
    /\ Len(values) = 3
    /\ Cardinality(ValueSet(values)) = 2
    /\ out[1].variance # FZero
    /\ ~population

\* the sum of the squares of vs
SumOfSquares(vs) == SumInts([i \in DOMAIN vs |-> vs[i] * vs[i]])

\* C5: calcVariance(values, population) is the sum of the squared
\* deviations from the mean divided by n when population is true and by
\* n - 1 when it is false, for n >= 2 (up to the rounding of the
\* floating-point operations, a relative error below 2^-40); for n = 1 it
\* is 0 for both values of the flag.  The sum of the squared deviations is
\* (n * sum of squares - square of the sum) / n.
C5_VarianceDivisor ==
    Analyzed =>
        LET n == Len(values)
            d == IF population THEN n ELSE n - 1
            exact == FDivInt(FFromInt(n * SumOfSquares(values)
                                        - SumInts(values) * SumInts(values)),
                             n * d)
        IN  IF n = 1 THEN out[1].variance = FZero
            ELSE CloseTo(out[1].variance, exact, 1, 40)

C5_Witness ==
    /\ Analyzed
    /\ ~population
    /\ Len(values) = 3
    /\ out[1].variance = FFromInt(1)

\* C6: for every non-empty sample calcMedian is the central element of the
\* sample in ascending order when n is odd, and the arithmetic mean of the
\* two central elements (the n/2-th and the n/2+1-th) when n is even.
C6_Median ==
    Analyzed =>
        LET n == Len(values)
        IN  IF n % 2 = 1
            THEN out[1].median = FFromInt(OrderStatistic(values, (n + 1) \div 2))
            ELSE FMul(out[1].median, FFromInt(2))
                    = FFromInt(OrderStatistic(values, n \div 2)
                                 + OrderStatistic(values, (n \div 2) + 1))

\* an even, unsorted sample whose median is a half
C6_Witness ==
    /\ Analyzed
    /\ Len(values) = 4
    /\ values[1] > values[2]
    /\ FMul(out[1].median, FFromInt(2)) = FFromInt(1)

\* C7: for every non-empty sample calcMode returns as frequency the largest
\* absolute frequency of a distinct value, and as modes the distinct values
\* of that frequency, in ascending order without duplicates.
C7_Modes ==
    Analyzed =>
        LET m == out[1].modeInfo
        IN  /\ m.frequency = MaxCount(values)
            /\ ValueSet(m.modes)
                  = {v \in ValueSet(values) : Count(values, v) = MaxCount(values)}
            /\ StrictlyAscending(m.modes)

\* two modes, one of them negative and counted last
C7_Witness ==
    /\ Analyzed
    /\ out[1].modeInfo.frequency = 2
    /\ Len(out[1].modeInfo.modes) = 2
    /\ out[1].modeInfo.modes[1] < 0
    /\ values[1] >= 0

\* C8: for every non-empty sample the mode descriptor has type 'ninguna'
\* exactly when its frequency is 1, and type 'unimodal' exactly when modes
\* has one element and the frequency exceeds 1.
C8_NoneAndUnimodal ==
    Analyzed =>
        LET m == out[1].modeInfo
        IN  /\ (m.type = "ninguna") <=> (m.frequency = 1)
            /\ (m.type = "unimodal") <=> (Len(m.modes) = 1 /\ m.frequency > 1)

C8_Witness ==
    /\ Analyzed
    /\ out[1].modeInfo.type = "unimodal"
    /\ out[1].modeInfo.frequency = 2
    /\ Len(values) = 4

\* C9 as stated: the mode descriptor has type 'bimodal' exactly when modes
\* has 2 elements and type 'multimodal' exactly when it has 3 or more, also
\* for samples in which no value repeats.
C9_ByModesAlone ==
    Analyzed =>
        LET m == out[1].modeInfo
        IN  /\ (m.type = "bimodal") <=> (Len(m.modes) = 2)
            /\ (m.type = "multimodal") <=> (Len(m.modes) >= 3)

\* C9 amended: the mode descriptor has type 'bimodal' exactly when modes has
\* 2 elements and the frequency exceeds 1, and type 'multimodal' exactly
\* when modes has 3 or more elements and the frequency exceeds 1; a sample
\* in which no value repeats has type 'ninguna' whatever the size of modes.
C9_ByModesAndFrequency ==
    Analyzed =>
        LET m == out[1].modeInfo
        IN  /\ (m.type = "bimodal") <=> (Len(m.modes) = 2 /\ m.frequency > 1)
            /\ (m.type = "multimodal") <=> (Len(m.modes) >= 3 /\ m.frequency > 1)
            /\ (m.frequency = 1) => (m.type = "ninguna")

C9_Witness ==
    /\ Analyzed
    /\ out[1].modeInfo.type = "multimodal"
    /\ Len(out[1].modeInfo.modes) = 3
    /\ out[1].modeInfo.frequency = 2

Parsed == parsed # <<>>

InSeq(x, a) == \E i \in DOMAIN a : a[i] = x

\* the tokens of the text that parseInput examined and did not report
Accepted(token) == ~InSeq(token, parsed[1].invalidValues)

IsDecimalDigit(c) == c \in {"0", "1", "2", "3", "4", "5", "6", "7", "8", "9"}

AllDigits(s) == s # <<>> /\ \A i \in DOMAIN s : IsDecimalDigit(s[i])

\* an optional sign followed by one or more decimal digits
SignedDigits(token) ==
    \/ AllDigits(token)
    \/ (token # <<>> /\ token[1] \in {"+", "-"} /\ AllDigits(Tail(token)))

\* the decimal digits of a natural number without a leading zero
CanonicalNatural(s) == AllDigits(s) /\ (s[1] # "0" \/ Len(s) = 1)

\* the string of an integer: no '+', no leading zero, no "-0"
CanonicalInteger(token) ==
    \/ CanonicalNatural(token)
    \/ /\ token # <<>>
       /\ token[1] = "-"
       /\ CanonicalNatural(Tail(token))
       /\ Tail(token) # <<"0">>

\* C10 as stated: with negatives allowed, parse accepts a token exactly when
\* it is an optional sign ('+' or '-') followed by one or more decimal
\* digits; "+5", "007" and "-0" are accepted.
C10_SignedDigitsAccepted ==
    (Parsed /\ allowNegative) =>
        \A i \in DOMAIN parsed[1].rawValues :
            Accepted(parsed[1].rawValues[i]) <=> SignedDigits(parsed[1].rawValues[i])

\* C10 amended: parse accepts a token (of at most 15 digits) exactly when it
\* is the decimal string of an integer, that is "0" or an optional '-'
\* followed by digits that do not start with 0, and, in the copy that
\* rejects negatives, has no '-'; every other token is invalid, among them
\* "+5", "007" and "-0".
C10_CanonicalAccepted ==
    Parsed =>
        \A i \in DOMAIN parsed[1].rawValues :
            Accepted(parsed[1].rawValues[i])
                <=> /\ CanonicalInteger(parsed[1].rawValues[i])
                    /\ (allowNegative \/ parsed[1].rawValues[i][1] # "-")

\* a token with a plus sign was rejected where negatives are allowed
C10_Witness ==
    /\ Parsed
    /\ allowNegative
    /\ parsed[1].status = "InvalidTokens"
    /\ parsed[1].invalidValues = << <<"+", "1">> >>

DecimalDigits == <<"0", "1", "2", "3", "4", "5", "6", "7", "8", "9">>

RECURSIVE NaturalValue(_)
\* the number a string of decimal digits denotes
NaturalValue(s) ==
    IF s = <<>> THEN 0
    ELSE 10 * NaturalValue(SubSeq(s, 1, Len(s) - 1))
           + (CHOOSE d \in 0..9 : DecimalDigits[d + 1] = s[Len(s)])

\* the number a canonical integer string denotes
TokenValue(token) ==
    IF token[1] = "-" THEN 0 - NaturalValue(Tail(token))
    ELSE NaturalValue(token)

\* the string of a negative integer
NegativeInteger(token) == CanonicalInteger(token) /\ token[1] = "-"

Tokens == parsed[1].rawValues

AllNegative == Tokens # <<>> /\ \A i \in DOMAIN Tokens : NegativeInteger(Tokens[i])

\* C12 as stated: when negatives are rejected and every token of the input
\* is a well-formed negative integer, parse fails with the NoValidTokens
\* error, not with InvalidTokens.
C12_AllNegativeNoValidTokens ==
    (Parsed /\ ~allowNegative /\ AllNegative) => parsed[1].status = "NoValidTokens"

\* C12 amended: when negatives are rejected and every token of the input is
\* a well-formed negative integer, parse fails with the InvalidTokens error,
\* whose list holds every token; no input makes parse fail with the
\* NoValidTokens error.
C12_AllNegativeInvalidTokens ==
    Parsed =>
        /\ (~allowNegative /\ AllNegative)
              => /\ parsed[1].status = "InvalidTokens"
                 /\ parsed[1].invalidValues = Tokens
        /\ parsed[1].status # "NoValidTokens"

\* two negative tokens handed to the copy that rejects them
C12_Witness ==
    /\ Parsed
    /\ ~allowNegative
    /\ Tokens = << <<"-", "1">>, <<"-", "1">> >>
    /\ parsed[1].status = "InvalidTokens"

\* a comma, a semicolon or a whitespace character
Separator(c) == c \in {",", ";", " ", "\t", "\n", "\r"}

\* the positions of s where a maximal run of non-separators starts
TokenStarts(s) ==
    {i \in DOMAIN s : ~Separator(s[i]) /\ (i = 1 \/ Separator(s[i - 1]))}

\* the position where the run that starts at i ends
TokenEnd(s, i) ==
    CHOOSE j \in i..Len(s) :
        /\ \A k \in i..j : ~Separator(s[k])
        /\ (j = Len(s) \/ Separator(s[j + 1]))

\* the maximal runs of non-separators of s, from left to right
TokensOf(s) ==
    LET starts == TokenStarts(s)
        nth(k) == CHOOSE i \in starts : Cardinality({x \in starts : x < i}) = k - 1
    IN  [k \in 1..Cardinality(starts) |-> SubSeq(s, nth(k), TokenEnd(s, nth(k)))]

InputTokens == TokensOf(inputString)

\* the string of an integer the running copy takes
ValidToken(token) ==
    CanonicalInteger(token) /\ (allowNegative \/ token[1] # "-")

InvalidToken(token) == ~ValidToken(token)

\* C13: when one or more tokens are invalid, parse fails with one
\* InvalidTokens error whose list holds every invalid token, once per
\* occurrence, in the order of the input, and no valid token.
C13_AllInvalidTokensListed ==
    Parsed =>
        IF \E i \in DOMAIN InputTokens : InvalidToken(InputTokens[i])
        THEN /\ parsed[1].status = "InvalidTokens"
             /\ parsed[1].invalidValues = SelectSeq(InputTokens, InvalidToken)
        ELSE /\ parsed[1].status # "InvalidTokens"
             /\ parsed[1].invalidValues = <<>>

\* an invalid token twice, around a valid one, and another invalid one
C13_Witness ==
    /\ Parsed
    /\ Len(InputTokens) = 3
    /\ InputTokens[2] = <<"1">>
    /\ parsed[1].status = "InvalidTokens"
    /\ parsed[1].invalidValues \in { << <<"a">>, <<"a">> >>, << <<"+", "1">>, <<"a">> >> }

\* C14: parse returns a sample exactly when the input has tokens and every
\* token is valid; the sample then has one integer per token, in the order
\* of the tokens, each the value of its token.  When a token is invalid no
\* sample is returned, not even the valid subset.
C14_SampleIffAllValid ==
    Parsed =>
        IF InputTokens # <<>> /\ \A i \in DOMAIN InputTokens : ValidToken(InputTokens[i])
        THEN /\ parsed[1].status = "ok"
             /\ parsed[1].numbers
                   = [i \in DOMAIN InputTokens |-> TokenValue(InputTokens[i])]
        ELSE /\ parsed[1].status # "ok"
             /\ parsed[1].numbers = <<>>

\* three valid tokens, not in ascending order, one of them negative
C14_Witness ==
    /\ Parsed
    /\ parsed[1].status = "ok"
    /\ parsed[1].numbers = <<10, 0 - 1, 1>>

\* a space, a tab or a line break
Blank(c) == c \in {" ", "\t", "\n", "\r"}

\* C15: parse fails with the EmptyInput error exactly when the text is
\* empty or consists of whitespace characters only.
C15_EmptyInput ==
    Parsed =>
        ((parsed[1].status = "EmptyInput")
            <=> (\A i \in DOMAIN inputString : Blank(inputString[i])))

\* a text of two spaces
C15_Witness ==
    /\ Parsed
    /\ inputString = <<" ", " ">>
    /\ parsed[1].status = "EmptyInput"

\* C16: a text that is not whitespace only and consists of separators only
\* (commas, semicolons, whitespace) has no tokens, and parse fails with the
\* NoTokens error; parse fails with NoTokens for no other text.
C16_NoTokens ==
    Parsed =>
        ((parsed[1].status = "NoTokens")
            <=> /\ \A i \in DOMAIN inputString : Separator(inputString[i])
                /\ \E i \in DOMAIN inputString : ~Blank(inputString[i]))

\* commas around a space
C16_Witness ==
    /\ Parsed
    /\ inputString = <<",", " ", ",">>
    /\ parsed[1].status = "NoTokens"
    /\ parsed[1].rawValues = <<>>

Redelimited == parsed # <<>> /\ ref # <<>>

\* C17: the outcome of parse does not depend on the delimiters: replacing
\* a delimiter run between two tokens by another non-empty run of commas,
\* semicolons and whitespace, or adding runs before the first token or
\* after the last, gives the same tokens, none of them empty, the same
\* parsed sequence and the same error.
C17_DelimiterIndependent ==
    Redelimited =>
        /\ parsed[1].rawValues = ref[1].rawValues
        /\ parsed[1].numbers = ref[1].numbers
        /\ parsed[1].status = ref[1].status
        /\ parsed[1].invalidValues = ref[1].invalidValues
        /\ \A i \in DOMAIN parsed[1].rawValues : parsed[1].rawValues[i] # <<>>

\* "1,9" presented as ",1; 9" and a line break
C17_Witness ==
    /\ Redelimited
    /\ inputString = <<",", "1", ";", " ", "9", "\n">>
    /\ parsed[1].numbers = <<1, 9>>
    /\ ref[1].numbers = <<1, 9>>

\* C18: every sample a successful parse returns has at least one element,
\* all of them integers, and the statistics functions that
\* validateAndProcess calls receive that sample, never an empty sequence.
C18_SampleNonEmpty ==
    /\ (Parsed /\ parsed[1].status = "ok")
          => /\ Len(parsed[1].numbers) >= 1
             /\ \A i \in DOMAIN parsed[1].numbers : parsed[1].numbers[i] \in Int
    /\ (Parsed /\ Analyzed)
          => /\ values = parsed[1].numbers
             /\ Len(values) >= 1
             /\ out[1].n >= 1

\* the statistics of a parsed sample of three values
C18_Witness ==
    /\ Parsed
    /\ Analyzed
    /\ values = <<10, 1, 10>>
    /\ out[1].n = 3

\* a / b rounded to the nearest integer, halves up
RoundHalfUp(a, b) == (2 * a + b) \div (2 * b)

\* the Number nearest to k / p: what parseFloat reads from the decimal
Decimal(k, p) == FDivInt(FFromInt(k), p)

\* the number of elements of vs that are at most v
CountUpTo(vs, v) == Cardinality({i \in DOMAIN vs : vs[i] <= v})

\* C19: in every row of getFrequencyTable, with n the size of the sample,
\* fr is fa/n rounded to 4 decimals, Fr is the cumulative Fa/n rounded to 4
\* decimals and percentage is 100*fa/n rounded to 2 decimals; Fr is not the
\* sum of the rounded fr of the rows before.
C19_RoundedOnce ==
    Analyzed =>
        LET t == out[1].freqTable
            n == Len(values)
        IN  \A i \in DOMAIN t :
               /\ t[i].fa = Count(values, t[i].value)
               /\ t[i].Fa = CountUpTo(values, t[i].value)
               /\ t[i].fr = Decimal(RoundHalfUp(t[i].fa * 10000, n), 10000)
               /\ t[i].Fr = Decimal(RoundHalfUp(t[i].Fa * 10000, n), 10000)
               /\ t[i].percentage = Decimal(RoundHalfUp(t[i].fa * 10000, n), 100)

\* 160 values, three of them 0: fr of the first row is 0.0187, and
\* 3/160 = 0.01875 rounded to 4 decimals is 0.0188
C19_Witness ==
    /\ Analyzed
    /\ Len(values) = 160
    /\ Count(values, 0) = 3
    /\ out[1].freqTable[1].fr = Decimal(187, 10000)
    /\ out[1].freqTable[1].percentage = Decimal(188, 100)

----------------------------------------------------------------------------
(* The reference scenario                                                   *)

ReferenceData == <<13, 9, 14, 11, 8, 11, 10, 8, 4, 11>>

RowsOfValue(freqRows, v) == {i \in DOMAIN freqRows : freqRows[i].value = v}

\* the statistics of the reference scenario other than the variance
ReferenceStatistics ==
    /\ values = ReferenceData
    /\ out[1].n = 10
    /\ out[1].sum = 99
    /\ out[1].mean = Decimal(99, 10)
    /\ out[1].median = Decimal(21, 2)
    /\ out[1].modeInfo.modes = <<11>>
    /\ out[1].modeInfo.frequency = 3
    /\ out[1].modeInfo.type = "unimodal"
    /\ out[1].range = 10
    /\ \E i \in RowsOfValue(out[1].freqTable, 11) :
          /\ RowsOfValue(out[1].freqTable, 11) = {i}
          /\ out[1].freqTable[i].fa = 3
          /\ out[1].freqTable[i].fr = Decimal(3, 10)
          /\ out[1].freqTable[i].percentage = FFromInt(30)

\* the square root of x is 2.70 to two decimals: 2.695^2 = 7.263025 and
\* 2.705^2 = 7.317025
RootAbout270(x) ==
    /\ FLessEq(Decimal(7264, 1000), x)
    /\ FLessEq(x, Decimal(7317, 1000))

RootAbout281(x) ==
    /\ FLessEq(Decimal(7869, 1000), x)
    /\ FLessEq(x, Decimal(7924, 1000))

----------------------------------------------------------------------------
(* The page after a request                                                 *)

\* a call of validateAndProcess has completed
Called == parsed # <<>>

\* the text of the last request
Request == ref[1]

\* the tokens of the text are integers without a sign, and there is one
RequestValid ==
    /\ TokensOf(Request) # <<>>
    /\ \A i \in DOMAIN TokensOf(Request) : ValidToken(TokensOf(Request)[i])

\* the sample the text stands for
SampleOf(text) == [i \in DOMAIN TokensOf(text) |-> TokenValue(TokensOf(text)[i])]

\* no piece of output on the page
NoOutput(p) ==
    /\ p.summary = <<>>
    /\ p.table = <<>>
    /\ p.conclusions = <<>>
    /\ p.barChart = 0
    /\ p.pieChart = 0
    /\ p.currentData = <<>>

\* the summary, the table, the two charts and the conclusions on the page
\* are those of the sample that window.currentData holds
OutputOfOneRequest(p) ==
    /\ p.currentData # <<>>
    /\ p.summary # <<>>
    /\ p.table # <<>>
    /\ p.conclusions # <<>>
    /\ p.barChart # 0
    /\ p.pieChart # 0
    /\ LET d == p.currentData[1]
           rows == d.freqTable
       IN  /\ rows = getFrequencyTable(d.values)
           /\ d.stats = StatsOf(Results(d.values, TRUE))
           /\ p.table = <<rows>>
           /\ p.summary[1].n = Len(d.values)
           /\ p.summary[1].sum = SumInts(d.values)
           /\ p.summary[1].min = d.stats.min
           /\ p.summary[1].max = d.stats.max
           /\ p.summary[1].mean = ToFixedDigits(d.stats.mean, 2)
           /\ p.summary[1].median = d.stats.median
           /\ p.summary[1].moda = d.stats.modeText
           /\ ~p.charts[p.barChart].destroyed
           /\ p.charts[p.barChart].type = "bar"
           /\ p.charts[p.barChart].labels = RowValues(rows)
           /\ p.charts[p.barChart].data = [i \in DOMAIN rows |-> rows[i].fa]
           /\ ~p.charts[p.pieChart].destroyed
           /\ p.charts[p.pieChart].type = "pie"
           /\ p.charts[p.pieChart].labels = RowValues(rows)
           /\ p.charts[p.pieChart].data =
                 [i \in DOMAIN rows |-> rows[i].percentage]
           /\ p.conclusions[1].minErrorCount = d.stats.min
           /\ p.conclusions[1].maxErrorCount = d.stats.max
           /\ p.conclusions[1].minFa = Count(d.values, d.stats.min)
           /\ p.conclusions[1].maxFa = Count(d.values, d.stats.max)
           /\ p.conclusions[1].minPercentage = rows[1].percentage
           /\ p.conclusions[1].maxPercentage = rows[Len(rows)].percentage

\* C23 as stated: every request is atomic: the summary, the table, the
\* charts, the conclusions and window.currentData are at all times those of
\* one and the same request (the last that was not discarded) or all absent,
\* and never partly of one request and partly of another or of none, also
\* when a rendering step throws after earlier steps ran.
C23_AllOrNothing == NoOutput(page) \/ OutputOfOneRequest(page)

\* a request whose rendering threw after renderSummary and
\* buildFreqTableDOM ran: the page holds the summary and the table of the
\* request, and no conclusions and no window.currentData
C23_Witness ==
    /\ Called
    /\ RequestValid
    /\ page.errorHTML = <<ChartNotDefined>>
    /\ page.summary # <<>>
    /\ page.summary[1].n = Len(SampleOf(Request))
    /\ page.table # <<>>
    /\ page.conclusions = <<>>
    /\ page.currentData = <<>>

\* C27: after every completed call of validateAndProcess exactly one of the
\* error container and the results section is displayed: after a request
\* that went through, the error container is hidden and empty and the
\* results are shown; after one that threw, in parseInput or in a rendering
\* step, the container shows the message and the results are hidden.
C27_OneVisible ==
    Called =>
        IF RequestValid /\ page.chartLibrary
        THEN /\ page.errorDisplay = "none"
             /\ page.errorHTML = <<>>
             /\ page.resultsDisplay = "block"
        ELSE /\ page.errorDisplay = "block"
             /\ page.errorHTML # <<>>
             /\ page.errorHTML[1].error # "ok"
             /\ page.resultsDisplay = "none"

\* an error after results were shown
C27_Witness ==
    /\ Called
    /\ ~RequestValid
    /\ page.errorDisplay = "block"
    /\ page.resultsDisplay = "none"
    /\ page.conclusions # <<>>

\* C28: when a call ends with the results shown, window.currentData holds
\* the values, the stats and the frequency table of the text of that call;
\* a call that ends with the error shown leaves window.currentData as it
\* was.
C28_CurrentData ==
    [][/\ page'.resultsDisplay = "block" =>
            /\ page'.currentData # <<>>
            /\ page'.currentData[1].values = SampleOf(ref'[1])
            /\ page'.currentData[1].stats =
                  StatsOf(Results(SampleOf(ref'[1]), TRUE))
            /\ page'.currentData[1].freqTable =
                  getFrequencyTable(SampleOf(ref'[1]))
       /\ page'.errorDisplay = "block" =>
            page'.currentData = page.currentData]_vars

\* results of a second text shown after those of a first
C28_Witness ==
    /\ Called
    /\ page.resultsDisplay = "block"
    /\ Len(page.charts) = 4
    /\ page.currentData[1].values = SampleOf(Request)
    /\ page.charts[1].labels # page.charts[3].labels

\* the instances of a type that are not destroyed
Live(p, type) ==
    {i \in DOMAIN p.charts : p.charts[i].type = type /\ ~p.charts[i].destroyed}

\* the instances of a type
OfType(p, type) == {i \in DOMAIN p.charts : p.charts[i].type = type}

\* the global holds the instance of the type created last, which is the
\* only one not destroyed; null when none was created
HoldsLatest(p, global, type) ==
    IF OfType(p, type) = {} THEN p[global] = 0
    ELSE /\ p[global] \in OfType(p, type)
         /\ \A i \in OfType(p, type) : i <= p[global]
         /\ Live(p, type) = {p[global]}

\* C29: at any time at most one bar chart and at most one pie chart is not
\* destroyed; drawBarChart and drawPieChart destroy the instance held
\* before they create and store the new one, so that each global holds the
\* instance created last, and every older instance is destroyed.
C29_OneChartEach ==
    /\ Cardinality(Live(page, "bar")) <= 1
    /\ Cardinality(Live(page, "pie")) <= 1
    /\ HoldsLatest(page, "barChart", "bar")
    /\ HoldsLatest(page, "pieChart", "pie")

\* charts of a second request, those of the first destroyed
C29_Witness ==
    /\ Len(page.charts) >= 4
    /\ page.charts[1].destroyed
    /\ page.charts[2].destroyed
    /\ page.barChart = 3
    /\ page.pieChart = 4

----------------------------------------------------------------------------
(* Relations between the statistics                                         *)

\* C24: in getFrequencyTable Fa and Fr are accumulated over the rows in
\* ascending order of the values, not in the order of the input: the values
\* of the rows ascend, Fa of a row is the number of elements of the sample
\* less than or equal to the value of the row and so increases strictly from
\* row to row, and Fr never decreases and is Fa / n to four decimals.
C24_CumulativeAscending ==
    Analyzed =>
        LET rows == out[1].freqTable
        IN  \A i \in DOMAIN rows :
               /\ rows[i].Fa = CountUpTo(values, rows[i].value)
               /\ FLessEq(FAbs(FSub(rows[i].Fr,
                                    Decimal(CountUpTo(values, rows[i].value),
                                            Len(values)))),
                          Decimal(1, 10000))
               /\ i > 1 =>
                     /\ rows[i - 1].value < rows[i].value
                     /\ rows[i - 1].Fa < rows[i].Fa
                     /\ FLessEq(rows[i - 1].Fr, rows[i].Fr)

\* a sample that descends, with a value that occurs twice
C24_Witness ==
    /\ Analyzed
    /\ Len(values) = 3
    /\ values[1] > values[2]
    /\ Len(out[1].freqTable) = 2
    /\ out[1].freqTable[1].fa = 2
    /\ out[1].freqTable[2].Fa = 3

\* the greatest fa of the rows
MaxFa(rows) ==
    CHOOSE m \in {rows[i].fa : i \in DOMAIN rows} :
        \A i \in DOMAIN rows : rows[i].fa <= m

\* the values of the rows of fa = m, in the order of the rows
ValuesOfFa(rows, m) ==
    LET Has(row) == row.fa = m
    IN  [i \in DOMAIN SelectSeq(rows, Has) |-> SelectSeq(rows, Has)[i].value]

\* C25: on every non-empty sample calcMode and getFrequencyTable agree: the
\* modes are the values of the rows whose fa is greatest, in the order of
\* the rows; the frequency of calcMode is that greatest fa; every mode is an
\* element of the sample; and modes.length * frequency <= n.
C25_ModeAgreesWithTable ==
    Analyzed =>
        LET rows == out[1].freqTable
            mode == out[1].modeInfo
        IN  /\ mode.frequency = MaxFa(rows)
            /\ mode.modes = ValuesOfFa(rows, MaxFa(rows))
            /\ \A i \in DOMAIN mode.modes : mode.modes[i] \in ValueSet(values)
            /\ Len(mode.modes) * mode.frequency <= Len(values)

\* one value twice and another once
C25_Witness ==
    /\ Analyzed
    /\ Len(out[1].freqTable) = 2
    /\ Len(out[1].modeInfo.modes) = 1
    /\ out[1].modeInfo.frequency = 2
    /\ out[1].modeInfo.modes[1] = out[1].freqTable[2].value

\* C26: for every non-empty sample the statistics record satisfies
\* min <= median <= max and min <= mean <= max, and range = max - min >= 0,
\* with range = 0 exactly when all values are equal.
C26_OrderOfStatistics ==
    Analyzed =>
        /\ \A i \in DOMAIN values : out[1].min <= values[i]
        /\ \A i \in DOMAIN values : values[i] <= out[1].max
        /\ FLessEq(FFromInt(out[1].min), out[1].median)
        /\ FLessEq(out[1].median, FFromInt(out[1].max))
        /\ FLessEq(FFromInt(out[1].min), out[1].mean)
        /\ FLessEq(out[1].mean, FFromInt(out[1].max))
        /\ out[1].range = out[1].max - out[1].min
        /\ out[1].range >= 0
        /\ out[1].range = 0 <=> \A i, j \in DOMAIN values : values[i] = values[j]

\* a sample whose mean and median lie strictly between its extremes
C26_Witness ==
    /\ Analyzed
    /\ Len(values) = 4
    /\ out[1].range = 2
    /\ out[1].median # FFromInt(out[1].min)
    /\ out[1].median # FFromInt(out[1].max)
    /\ out[1].mean # out[1].median

----------------------------------------------------------------------------
(* The round trip of parseInput                                             *)

\* the text is the decimal numerals of the numbers with single commas
\* between them
IsJoinOf(text, numbers) ==
    /\ Len(TokensOf(text)) = Len(numbers)
    /\ \A i \in DOMAIN numbers :
          /\ CanonicalInteger(TokensOf(text)[i])
          /\ TokenValue(TokensOf(text)[i]) = numbers[i]
    /\ Len(text) = Len(numbers) - 1
                     + SumInts([i \in DOMAIN numbers |-> Len(TokensOf(text)[i])])
    /\ \A i \in DOMAIN text : Separator(text[i]) => text[i] = ","

\* C30: parseInput round-trips on its own output, in both copies: when it
\* succeeds with the sample s, every accepted token is the decimal numeral
\* of its integer, and parsing the decimal numerals of s joined by ","
\* succeeds and returns the same sequence s.
C30_RoundTrip ==
    /\ (Parsed /\ parsed[1].status = "ok") =>
          \A i \in DOMAIN parsed[1].numbers :
             /\ CanonicalInteger(parsed[1].rawValues[i])
             /\ TokenValue(parsed[1].rawValues[i]) = parsed[1].numbers[i]
    /\ ref # <<>> => IsJoinOf(inputString, ref[1].numbers)
    /\ (ref # <<>> /\ Parsed) =>
          /\ parsed[1].status = "ok"
          /\ parsed[1].numbers = ref[1].numbers

\* the second parse of a sample of three numbers, one of two digits, whose
\* first text had other delimiters than single commas
C30_Witness ==
    /\ ref # <<>>
    /\ Parsed
    /\ Len(ref[1].numbers) = 3
    /\ \E i \in 1..3 : ref[1].numbers[i] = 10
    /\ Len(inputString) < Len(JoinTokens(ref[1].rawValues,
                                         [i \in 1..2 |-> <<";", "\n">>]))
====
